---- MODULE Spec2Model ----
(***************************************************************************)
(* Model of VoiceChatApp (App.tsx): the logs effect that derives the       *)
(* conversation from the event log and dispatches function calls to the    *)
(* voice bridge relay, and the relay calls it fires.                       *)
(*                                                                         *)
(* JavaScript values are modelled as follows.  A string is a TLA+ string.  *)
(* An optional value (a field that may be undefined) is a sequence of      *)
(* length 0 (undefined) or 1 (the value).  An object with string values    *)
(* (fc.args) is the sequence of its <<key, value>> pairs in insertion      *)
(* order, which is the order JSON.stringify writes them in.                *)
(***************************************************************************)
EXTENDS Integers, Sequences, FiniteSets, TLC

VARIABLES
    logs,          \* useLoggerStore().logs: the event log
    handledCalls,  \* handledCalls.current: Set<string> of callIds
    conversation,  \* the conversation state (setConversation)
    origin,        \* history: for each conversation entry, where it came from
    scanned,       \* history: length of the log scanned by the last pass
    suppressed,    \* history: the calls the last pass skipped as already handled
    fresh,         \* history: the callIds the last pass dispatched
    probe,         \* the input and the value of a function applied on its own
    connected,     \* useLiveAPIContext().connected: a session is open
    saved,         \* a transcript has been downloaded
    mounts,        \* how often VoiceChatApp has been mounted again
    authenticated, \* PasswordGate: useState authenticated
    vcAuth,        \* sessionStorage item 'vc-auth', None when it is not set
    password,      \* PasswordGate: useState password, the input field
    error,         \* PasswordGate: useState error
    hashing,       \* the passwords of the submissions awaiting sha256
    timers,        \* pending setTimeout(() => setError(false), 2000)
    shown,         \* the last render of PasswordGate returned the children
    requests       \* every relay request issued so far, with its outcome

vars == <<logs, handledCalls, conversation, origin, scanned, suppressed, fresh,
          probe, connected, saved, mounts, authenticated, vcAuth, password,
          error, hashing, timers, shown, requests>>

\* What the logs effect and the relay neither read nor write
\* The state of PasswordGate
gate == <<authenticated, vcAuth, password, error, hashing, timers, shown>>

apart == <<probe, connected, saved, mounts, gate>>

-----------------------------------------------------------------------------
(* Bounds *)

MaxLogs == 2
MaxRemounts == 1
MaxPending == 2

-----------------------------------------------------------------------------
(* Optional values *)

None == <<>>
Some(v) == <<v>>
IsSome(o) == Len(o) = 1
Get(o) == o[1]

-----------------------------------------------------------------------------
(* Strings *)

\* The characters String.prototype.trim strips that the inputs below use.
Whitespace == {" ", "\t", "\n", "\r"}

CharAt(s, i) == SubSeq(s, i, i)

RECURSIVE TrimStart(_)
TrimStart(s) ==
    IF Len(s) > 0 /\ CharAt(s, 1) \in Whitespace
    THEN TrimStart(SubSeq(s, 2, Len(s)))
    ELSE s

RECURSIVE TrimEnd(_)
TrimEnd(s) ==
    IF Len(s) > 0 /\ CharAt(s, Len(s)) \in Whitespace
    THEN TrimEnd(SubSeq(s, 1, Len(s) - 1))
    ELSE s

\* String.prototype.trim
Trim(s) == TrimEnd(TrimStart(s))

\* The characters JSON.stringify escapes inside a string literal.
EscapeChar(c) ==
    CASE c = "\"" -> "\\\""
      [] c = "\\" -> "\\\\"
      [] c = "\n" -> "\\n"
      [] c = "\r" -> "\\r"
      [] c = "\t" -> "\\t"
      [] OTHER -> c

RECURSIVE Escape(_)
Escape(s) ==
    IF Len(s) = 0 THEN ""
    ELSE EscapeChar(CharAt(s, 1)) \o Escape(SubSeq(s, 2, Len(s)))

\* JSON.stringify of a string
JsonString(s) == "\"" \o Escape(s) \o "\""

RECURSIVE JsonMembers(_)
JsonMembers(pairs) ==
    IF Len(pairs) = 0 THEN ""
    ELSE JsonString(pairs[1][1]) \o ":" \o JsonString(pairs[1][2])
         \o (IF Len(pairs) > 1 THEN "," ELSE "")
         \o JsonMembers(Tail(pairs))

\* JSON.stringify of an object whose values are strings
JsonObject(pairs) == "{" \o JsonMembers(pairs) \o "}"

\* `${JSON.stringify(x)}` for an optional object: JSON.stringify(undefined) is
\* undefined, which a template literal writes as "undefined".
JsonStringifyInTemplate(o) ==
    IF IsSome(o) THEN JsonObject(Get(o)) ELSE "undefined"

\* obj[key] for an object given by its pairs: undefined when the key is absent
RECURSIVE Lookup(_, _)
Lookup(pairs, key) ==
    IF Len(pairs) = 0 THEN None
    ELSE IF pairs[Len(pairs)][1] = key THEN Some(pairs[Len(pairs)][2])
    ELSE Lookup(SubSeq(pairs, 1, Len(pairs) - 1), key)

-----------------------------------------------------------------------------
(* Configuration *)

VOICE_BRIDGE_URL == "http://100.69.233.8:5052"
VOICE_BRIDGE_SECRET == "voice-bridge-2026"

-----------------------------------------------------------------------------
(* The inputs: parts, messages and log entries the session can deliver *)

TextPart(t) == [text |-> Some(t), functionCall |-> None]
CallPart(name, args) ==
    [text |-> None, functionCall |-> Some([name |-> name, args |-> args])]
TextCallPart(t, name, args) ==
    [text |-> Some(t), functionCall |-> Some([name |-> name, args |-> args])]
EmptyPart == [text |-> None, functionCall |-> None]

\* A client content message: { turns, turnComplete }
UserTurn(parts) ==
    [isObject |-> TRUE, turns |-> Some(parts), turnComplete |-> Some(TRUE),
     serverContent |-> None]
\* A server content message: { serverContent: { modelTurn: { parts } } }
ServerTurn(parts) ==
    [isObject |-> TRUE, turns |-> None, turnComplete |-> None,
     serverContent |-> Some([modelTurn |-> Some([parts |-> Some(parts)])])]
\* { serverContent: { turnComplete: true } }: server content with no model turn
ServerTurnComplete ==
    [isObject |-> TRUE, turns |-> None, turnComplete |-> None,
     serverContent |-> Some([modelTurn |-> None])]
\* A log line whose message is a plain string (typeof log.message !== "object")
StringMessage ==
    [isObject |-> FALSE, turns |-> None, turnComplete |-> None,
     serverContent |-> None]

CreateTaskArgs == Some(<< <<"title", "Buy milk">>, <<"description", "2 l">> >>)
SendMessageArgs == Some(<< <<"message", "status please">> >>)

Messages ==
    { UserTurn(<< TextPart("hello") >>),
      UserTurn(<< TextPart("\n"), TextPart(" hi\n"), TextPart(" \t"),
                  TextPart(""), EmptyPart,
                  CallPart("create_task", CreateTaskArgs) >>),
      ServerTurn(<< TextPart("Sure"), CallPart("create_task", CreateTaskArgs) >>),
      ServerTurn(<< CallPart("send_message", SendMessageArgs) >>),
      ServerTurn(<< TextPart(" "), TextPart("\n"), TextPart("ok\n"), EmptyPart >>),
      ServerTurn(<< TextCallPart("go", "run_batch", None) >>),
      ServerTurnComplete,
      StringMessage }

\* log.date.getTime(): milliseconds; two events can arrive in the same one
Dates == {1000, 1001}

LogEntries == [date : Dates, message : Messages]

\* What the relay's HTTP endpoint can answer to one request.  rejects: fetch
\* rejects (transport error); data: the parsed body, None when resp.json()
\* rejects; a parsed body is null or an object with optional status and message.
Response(rejects, data) == [rejects |-> rejects, data |-> data]
JsonNull == [isNull |-> TRUE, status |-> None, message |-> None]
JsonObj(status, message) == [isNull |-> FALSE, status |-> status, message |-> message]

Responses ==
    { Response(TRUE, None),
      Response(FALSE, None),
      Response(FALSE, Some(JsonNull)),
      Response(FALSE, Some(JsonObj(Some("sent"), None))),
      Response(FALSE, Some(JsonObj(Some("error"), Some("bad secret")))) }

\* No function is being applied on its own
NoProbe == [kind |-> "none"]

\* Answers of the relay for sendToBridge applied on its own: every combination
\* of a status and a message, present or absent, and the answers without a body
ProbeStatuses == {None, Some("sent"), Some("Sent"), Some("sent "), Some("error"), Some("")}
ProbeMessages == {None, Some(""), Some("sent"), Some("queued"), Some("bad secret")}
ProbeResponses ==
    { Response(TRUE, None), Response(FALSE, None), Response(FALSE, Some(JsonNull)) }
    \cup { Response(FALSE, Some(JsonObj(st, msg))) :
               st \in ProbeStatuses, msg \in ProbeMessages }

\* Function calls for callId applied on its own: the same arguments listed in
\* either order, other values, fewer keys, an empty object, no args at all
ProbeNames == {"create_task", "build"}
ProbeArgs ==
    { None,
      Some(<<>>),
      CreateTaskArgs,
      Some(<< <<"description", "2 l">>, <<"title", "Buy milk">> >>),
      Some(<< <<"title", "Buy milk">> >>),
      Some(<< <<"title", "Buy eggs">>, <<"description", "2 l">> >>) }
ProbeCalls ==
    { [fc |-> [name |-> n, args |-> a], date |-> d] :
          n \in ProbeNames, a \in ProbeArgs, d \in Dates }

-----------------------------------------------------------------------------
(* The logs effect *)

\* Mutant of KeepText: the trim() test is left out
KeepTextNoTrim(text) ==
    /\ IsSome(text)
    /\ Get(text) # ""
    /\ Get(text) # "\n"

\* part.text && part.text.trim() && part.text !== "\n"
KeepText(text) ==
    /\ IsSome(text)
    /\ Get(text) # ""
    /\ Trim(Get(text)) # ""
    /\ Get(text) # "\n"

\* Mutant of UserEntry: the trimmed text is pushed
UserEntryTrimmed(part, date) ==
    [role |-> "user", text |-> Trim(Get(part.text)), time |-> date]

\* entries.push({ role: "user", text: part.text, time: log.date })
UserEntry(part, date) == [role |-> "user", text |-> Get(part.text), time |-> date]

\* entries.push({ role: "model", text: part.text, time: log.date })
ModelEntry(part, date) == [role |-> "model", text |-> Get(part.text), time |-> date]

\* `${fc.name}-${JSON.stringify(fc.args)}-${log.date.getTime()}`
CallId(fc, date) ==
    fc.name \o "-" \o JsonStringifyInTemplate(fc.args) \o "-" \o ToString(date)

\* !handledCalls.current.has(callId), negated
IsHandled(handled, callId) == callId \in handled

\* Mutant of AddHandled: the callId is not recorded
AddHandledForgets(handled, callId) == handled

\* Mutant of AddHandled: the set is replaced by the new callId
AddHandledKeepsLatest(handled, callId) == {callId}

\* handledCalls.current.add(callId)
AddHandled(handled, callId) == handled \cup {callId}

\* Mutant of Params: the first argument is dropped
ParamsWithoutFirst(fc) ==
    IF IsSome(fc.args) /\ Get(fc.args) # <<>> THEN Tail(Get(fc.args)) ELSE <<>>

\* fc.args || {}
Params(fc) == IF IsSome(fc.args) THEN Get(fc.args) ELSE <<>>

\* The wrench emoji U+1F527 that opens the announcement, spelled in ASCII
Wrench == "[U+1F527]"

\* `<wrench> Sending to OpenClaw: ${fc.name}(${JSON.stringify(fc.args || {})})`
AnnouncementText(fc) ==
    Wrench \o " Sending to OpenClaw: " \o fc.name
           \o "(" \o JsonObject(Params(fc)) \o ")"

AnnouncementEntry(fc, date) ==
    [role |-> "model", text |-> AnnouncementText(fc), time |-> date]

\* Mutant of RelayRequest: send_message is not special-cased
RelayRequestAlwaysAction(fc, date) ==
    [url |-> VOICE_BRIDGE_URL \o "/action",
     body |-> [secret |-> VOICE_BRIDGE_SECRET,
               action |-> fc.name, params |-> Params(fc)],
     via |-> "sendToBridge",
     fc |-> fc, date |-> date, callId |-> CallId(fc, date),
     state |-> "inflight", failed |-> FALSE, result |-> None,
     logged |-> FALSE]

\* The request the effect fires for a new call: send_message goes to /command
\* through a bare fetch, every other name to /action through sendToBridge.
\* fc, date and callId record which call the request was issued for.
RelayRequest(fc, date) ==
    LET action == IF fc.name = "send_message" THEN "send_message" ELSE fc.name
        params == Params(fc)
    IN  IF action = "send_message"
        THEN [url |-> VOICE_BRIDGE_URL \o "/command",
              body |-> [secret |-> VOICE_BRIDGE_SECRET,
                        command |-> Lookup(params, "message")],
              via |-> "fetch",
              fc |-> fc, date |-> date, callId |-> CallId(fc, date),
              state |-> "inflight", failed |-> FALSE, result |-> None,
              logged |-> FALSE]
        ELSE [url |-> VOICE_BRIDGE_URL \o "/action",
              body |-> [secret |-> VOICE_BRIDGE_SECRET,
                        action |-> action, params |-> params],
              via |-> "sendToBridge",
              fc |-> fc, date |-> date, callId |-> CallId(fc, date),
              state |-> "inflight", failed |-> FALSE, result |-> None,
              logged |-> FALSE]

\* entries.push(e); where records the log position, part position and kind of
\* the entry in the history variable origin.
Push(st, e, where) ==
    [st EXCEPT !.entries = Append(@, e), !.origin = Append(@, where)]

\* History only: a request for callId has settled as a failure
HasFailed(issued, callId) ==
    \E i \in DOMAIN issued :
        /\ issued[i].callId = callId
        /\ issued[i].state = "settled"
        /\ issued[i].failed

\* Mutant of HandleFunctionCall: a new call is dispatched without announcement
HandleFunctionCallSilent(st, fc, date, ev, pi) ==
    LET callId == CallId(fc, date)
    IN  IF ~IsHandled(st.handled, callId)
        THEN [st EXCEPT !.handled = AddHandled(@, callId),
                        !.fresh = @ \cup {callId},
                        !.requests = Append(@, RelayRequest(fc, date))]
        ELSE [st EXCEPT !.suppressed = @ \cup
                 {[callId |-> callId, afterFailure |-> HasFailed(st.requests, callId)]}]

\* Mutant of HandleFunctionCall: a call that was dispatched by an earlier pass
\* is announced again
HandleFunctionCallReannounces(st, fc, date, ev, pi) ==
    LET callId == CallId(fc, date)
        st0 == Push(st, AnnouncementEntry(fc, date),
                    [ev |-> ev, part |-> pi, kind |-> "call"])
    IN  IF ~IsHandled(st.handled, callId)
        THEN [st0 EXCEPT !.handled = AddHandled(@, callId),
                         !.fresh = @ \cup {callId},
                         !.requests = Append(@, RelayRequest(fc, date))]
        ELSE [st0 EXCEPT !.suppressed = @ \cup
                 {[callId |-> callId, afterFailure |-> HasFailed(st.requests, callId)]}]

\* The body of `if (part.functionCall) { ... }`; a dispatched callId is
\* recorded in the history variable fresh and a call skipped as already handled
\* in the history variable suppressed.
HandleFunctionCall(st, fc, date, ev, pi) ==
    LET callId == CallId(fc, date)
    IN  IF ~IsHandled(st.handled, callId)
        THEN LET st1 == [st EXCEPT !.handled = AddHandled(@, callId),
                                   !.fresh = @ \cup {callId}]
                 st2 == Push(st1, AnnouncementEntry(fc, date),
                             [ev |-> ev, part |-> pi, kind |-> "call"])
             IN  [st2 EXCEPT !.requests = Append(@, RelayRequest(fc, date))]
        ELSE [st EXCEPT !.suppressed = @ \cup
                 {[callId |-> callId, afterFailure |-> HasFailed(st.requests, callId)]}]

\* for (const part of turns) { ... }, from part pi on
RECURSIVE ScanTurns(_, _, _, _, _)
ScanTurns(st, parts, date, ev, pi) ==
    IF pi > Len(parts) THEN st
    ELSE LET part == parts[pi]
             st1 == IF KeepText(part.text)
                    THEN Push(st, UserEntry(part, date),
                              [ev |-> ev, part |-> pi, kind |-> "text"])
                    ELSE st
         IN  ScanTurns(st1, parts, date, ev, pi + 1)

\* for (const part of sc.modelTurn.parts) { ... }, from part pi on
RECURSIVE ScanModelTurn(_, _, _, _, _)
ScanModelTurn(st, parts, date, ev, pi) ==
    IF pi > Len(parts) THEN st
    ELSE LET part == parts[pi]
             st1 == IF KeepText(part.text)
                    THEN Push(st, ModelEntry(part, date),
                              [ev |-> ev, part |-> pi, kind |-> "text"])
                    ELSE st
             st2 == IF IsSome(part.functionCall)
                    THEN HandleFunctionCall(st1, Get(part.functionCall), date, ev, pi)
                    ELSE st1
         IN  ScanModelTurn(st2, parts, date, ev, pi + 1)

\* "turns" in log.message && "turnComplete" in log.message
IsUserTurn(message) == IsSome(message.turns) /\ IsSome(message.turnComplete)

\* "serverContent" in log.message, and sc?.modelTurn?.parts is truthy
HasModelTurnParts(message) ==
    /\ IsSome(message.serverContent)
    /\ IsSome(Get(message.serverContent).modelTurn)
    /\ IsSome(Get(Get(message.serverContent).modelTurn).parts)

ModelTurnParts(message) == Get(Get(Get(message.serverContent).modelTurn).parts)

\* The body of `for (const log of logs) { ... }` for the log at position ev
ScanLog(st, log, ev) ==
    IF ~log.message.isObject THEN st
    ELSE LET st1 == IF IsUserTurn(log.message)
                    THEN ScanTurns(st, Get(log.message.turns), log.date, ev, 1)
                    ELSE st
         IN  IF HasModelTurnParts(log.message)
             THEN ScanModelTurn(st1, ModelTurnParts(log.message), log.date, ev, 1)
             ELSE st1

\* Mutant of ScanLogs: the failure of an earlier relay call is rethrown when
\* the call is seen again, and ends the loop over the log
RECURSIVE ScanLogsStopsAtFailure(_, _, _)
ScanLogsStopsAtFailure(st, ls, ev) ==
    IF ev > Len(ls) THEN st
    ELSE LET st1 == ScanLog(st, ls[ev], ev)
         IN  IF \E rec \in st1.suppressed : rec.afterFailure
             THEN st1
             ELSE ScanLogsStopsAtFailure(st1, ls, ev + 1)

\* for (const log of logs) { ... }, from position ev on
RECURSIVE ScanLogs(_, _, _)
ScanLogs(st, ls, ev) ==
    IF ev > Len(ls) THEN st
    ELSE ScanLogs(ScanLog(st, ls[ev], ev), ls, ev + 1)

RECURSIVE PickKind(_, _, _, _)
PickKind(seq, org, kind, i) ==
    IF i > Len(seq) THEN <<>>
    ELSE (IF org[i].kind = kind THEN <<seq[i]>> ELSE <<>>)
         \o PickKind(seq, org, kind, i + 1)

\* Mutant of Reduce: the announcements are pushed after the loop over the log
ReduceAnnouncementsLast(ls, handled, issued) ==
    LET st == ScanLogs([entries |-> <<>>, origin |-> <<>>, handled |-> handled,
                        requests |-> issued, suppressed |-> {}, fresh |-> {}], ls, 1)
    IN  [st EXCEPT
            !.entries = PickKind(st.entries, st.origin, "text", 1)
                        \o PickKind(st.entries, st.origin, "call", 1),
            !.origin = PickKind(st.origin, st.origin, "text", 1)
                       \o PickKind(st.origin, st.origin, "call", 1)]

\* One run of the effect over the log ls: entries starts empty, the handled set
\* and the requests issued so far carry over.
Reduce(ls, handled, issued) ==
    ScanLogs([entries |-> <<>>, origin |-> <<>>, handled |-> handled,
              requests |-> issued, suppressed |-> {}, fresh |-> {}], ls, 1)

-----------------------------------------------------------------------------
(* sendToBridge *)

\* `Bridge error: ${e}`; the text of the exception e does not matter here
BridgeError == [success |-> FALSE, message |-> "Bridge error: Error"]

\* resp.json() of a body that does not parse rejects; data.status of null throws
ThrowsInTry(resp) ==
    \/ resp.rejects
    \/ ~IsSome(resp.data)
    \/ Get(resp.data).isNull

\* data.message || 'sent'
MessageOrSent(data) ==
    IF IsSome(data.message) /\ Get(data.message) # ""
    THEN Get(data.message) ELSE "sent"

\* Mutant of SendToBridge: success is read off the message
SendToBridgeByMessage(resp) ==
    IF ThrowsInTry(resp) THEN BridgeError
    ELSE [success |-> MessageOrSent(Get(resp.data)) = "sent",
          message |-> MessageOrSent(Get(resp.data))]

\* The value sendToBridge's promise resolves to when the relay answers resp
SendToBridge(resp) ==
    IF ThrowsInTry(resp) THEN BridgeError
    ELSE [success |-> Get(resp.data).status = Some("sent"),
          message |-> MessageOrSent(Get(resp.data))]

\* The relay did not do what was asked: the transport failed, the answer was
\* malformed, or its status is not "sent".  Recorded with the request.
IsFailure(resp) ==
    \/ resp.rejects
    \/ ~IsSome(resp.data)
    \/ Get(resp.data).isNull
    \/ Get(resp.data).status # Some("sent")

\* What becomes of request r when the relay answers resp.  Through
\* sendToBridge the promise resolves to its result and .catch(console.error)
\* has nothing to catch; the bare fetch to /command resolves to a Response
\* nobody reads, or rejects and is logged by .catch(console.error).
Settle(r, resp) ==
    IF r.via = "sendToBridge"
    THEN [r EXCEPT !.state = "settled", !.failed = IsFailure(resp),
                   !.result = Some(SendToBridge(resp))]
    ELSE [r EXCEPT !.state = "settled", !.failed = IsFailure(resp),
                   !.logged = resp.rejects]

\* The code has no outcome field: the record of a dispatched call is the
\* membership of its callId in handledCalls, written at dispatch.  The most the
\* code ever learns of the outcome is what the call's relay promise settles
\* to: a result with success false or a logged rejection (failed), a result
\* with success true (sent), or nothing it reads (still pending).
DispatchOutcome(callId) ==
    LET settled == {i \in DOMAIN requests :
                       requests[i].callId = callId /\ requests[i].state = "settled"}
    IN  IF \E i \in settled :
               \/ requests[i].logged
               \/ IsSome(requests[i].result) /\ ~Get(requests[i].result).success
        THEN "failed"
        ELSE IF \E i \in settled :
                    IsSome(requests[i].result) /\ Get(requests[i].result).success
        THEN "sent"
        ELSE IF callId \in handledCalls THEN "pending"
        ELSE "none"

-----------------------------------------------------------------------------
(* PasswordGate *)

PASS_HASH == "b6b9fbdcb79928b3808cc932fbbee0a4abe8ceb0470fa53e69e9aef2c3a31890"

\* The password whose SHA-256 is PASS_HASH; the source holds the hash only
ThePassword == "<the password>"

\* What the user can type into the input field
Passwords == {"", "password", ThePassword}

\* sha256(message): the hex digest, written out for the passwords above
Sha256(message) ==
    CASE message = "" ->
             "e3b0c44298fc1c149afbf4c8996fb92427ae41e4649b934ca495991b7852b855"
      [] message = "password" ->
             "5e884898da28047151d0e56f8dc6292773603d0d6aabbdd62a11ef721d1542d8"
      [] message = ThePassword -> PASS_HASH

\* sessionStorage.getItem('vc-auth') === 'true'
FlagIsTrue(item) == item = Some("true")

\* What sessionStorage can hold for 'vc-auth' when the page is opened
StoredFlags == {None, Some("true"), Some("1")}

\* PasswordGate has let the user in and renders VoiceChatApp
GateOpen ==
    /\ authenticated = TRUE
    /\ vcAuth = Some("true")
    /\ password = ""
    /\ error = FALSE
    /\ hashing = <<>>
    /\ timers = 0
    /\ shown = TRUE

\* The sequence without its i-th element
Without(seq, i) == SubSeq(seq, 1, i - 1) \o SubSeq(seq, i + 1, Len(seq))

-----------------------------------------------------------------------------
(* Actions *)

Init ==
    /\ logs = <<>>
    /\ handledCalls = {}
    /\ conversation = <<>>
    /\ origin = <<>>
    /\ scanned = 0
    /\ suppressed = {}
    /\ fresh = {}
    /\ probe = NoProbe
    /\ connected = FALSE
    /\ saved = FALSE
    /\ mounts = 0
    /\ GateOpen
    /\ requests = <<>>

\* The logger store appends an event; dates never go back.
AppendLog(e) ==
    /\ Len(logs) < MaxLogs
    /\ Len(logs) > 0 => logs[Len(logs)].date <= e.date
    /\ logs' = Append(logs, e)
    /\ UNCHANGED <<handledCalls, conversation, origin, scanned, suppressed, fresh,
                   apart, requests>>

\* useEffect(() => { ... setConversation(entries) }, [logs, sendToBridge]):
\* React runs the effect after a render with a new logs array, which may hold
\* several new events, and may run it again over the same log (Strict Mode,
\* Fast Refresh); handledCalls is a ref and survives both.
RunEffect ==
    \E st \in {Reduce(logs, handledCalls, requests)} :
        /\ conversation' = st.entries
        /\ origin' = st.origin
        /\ handledCalls' = st.handled
        /\ requests' = st.requests
        /\ suppressed' = st.suppressed
        /\ fresh' = st.fresh
        /\ scanned' = Len(logs)
        /\ UNCHANGED <<logs, apart>>

\* Mutant of RelaySettles: a failed call is forgotten so that it is retried
RelaySettlesForgetsFailed(i, resp) ==
    /\ requests[i].state = "inflight"
    /\ requests' = [requests EXCEPT ![i] = Settle(@, resp)]
    /\ handledCalls' = IF IsFailure(resp)
                       THEN handledCalls \ {requests[i].callId}
                       ELSE handledCalls
    /\ UNCHANGED <<logs, conversation, origin, scanned, suppressed, fresh, apart>>

\* Mutant of RelaySettles: the outcome of the call is written to the transcript
RelaySettlesAnnounces(i, resp) ==
    /\ requests[i].state = "inflight"
    /\ requests' = [requests EXCEPT ![i] = Settle(@, resp)]
    /\ conversation' = Append(conversation,
                              [role |-> "model",
                               text |-> IF IsFailure(resp) THEN "failed" ELSE "sent",
                               time |-> requests[i].date])
    /\ origin' = Append(origin, [ev |-> Len(logs), part |-> 1, kind |-> "outcome"])
    /\ UNCHANGED <<logs, handledCalls, scanned, suppressed, fresh, apart>>

\* Mutant of RelaySettles: closing the session cancels the calls in flight
RelaySettlesWhileConnected(i, resp) ==
    /\ connected
    /\ requests[i].state = "inflight"
    /\ requests' = [requests EXCEPT ![i] = Settle(@, resp)]
    /\ UNCHANGED <<logs, handledCalls, conversation, origin, scanned, suppressed,
                   fresh, apart>>

\* The relay answers (or the transport fails) for the in-flight request i.
RelaySettles(i, resp) ==
    /\ requests[i].state = "inflight"
    /\ requests' = [requests EXCEPT ![i] = Settle(@, resp)]
    /\ UNCHANGED <<logs, handledCalls, conversation, origin, scanned, suppressed,
                   fresh, apart>>

\* sendToBridge is called and its promise resolves after the relay's answer
\* probe.resp.
CallSendToBridge ==
    /\ probe.kind = "response"
    /\ probe.result = None
    /\ probe' = [probe EXCEPT !.result = Some(SendToBridge(probe.resp))]
    /\ UNCHANGED <<logs, handledCalls, conversation, origin, scanned, suppressed,
                   fresh, connected, saved, mounts, gate, requests>>

\* The callIds of the two function calls probe.a and probe.b are computed.
ComputeCallIds ==
    /\ probe.kind = "calls"
    /\ probe.keys = None
    /\ probe' = [probe EXCEPT
                     !.keys = Some(<<CallId(probe.a.fc, probe.a.date),
                                     CallId(probe.b.fc, probe.b.date)>>)]
    /\ UNCHANGED <<logs, handledCalls, conversation, origin, scanned, suppressed,
                   fresh, connected, saved, mounts, gate, requests>>

Next ==
    \/ \E e \in LogEntries : AppendLog(e)
    \/ RunEffect
    \/ \E i \in DOMAIN requests : \E resp \in Responses : RelaySettles(i, resp)

Spec == Init /\ [][Next]_vars

\* The session opens: the context's connected turns true.
Connect ==
    /\ ~connected
    /\ connected' = TRUE
    /\ UNCHANGED <<logs, handledCalls, conversation, origin, scanned, suppressed,
                   fresh, probe, saved, mounts, gate, requests>>

\* disconnect(), or the transport drops the session: connected turns false.
Disconnect ==
    /\ connected
    /\ connected' = FALSE
    /\ UNCHANGED <<logs, handledCalls, conversation, origin, scanned, suppressed,
                   fresh, probe, saved, mounts, gate, requests>>

\* saveTranscript: nothing happens for an empty conversation; otherwise the
\* conversation is read, written out as markdown and downloaded.  saving is
\* true only inside the call.
SaveTranscript ==
    /\ conversation # <<>>
    /\ saved' = TRUE
    /\ UNCHANGED <<logs, handledCalls, conversation, origin, scanned, suppressed,
                   fresh, probe, connected, mounts, gate, requests>>

\* The open session delivers an event, which the logger store appends.
SessionEvent(e) == connected /\ AppendLog(e)

NextSession ==
    \/ \E e \in LogEntries : SessionEvent(e)
    \/ RunEffect
    \/ \E i \in DOMAIN requests : \E resp \in Responses : RelaySettles(i, resp)
    \/ Connect
    \/ Disconnect
    \/ SaveTranscript

\* The component in a session that opens and closes, with transcript export
SpecSession == Init /\ [][NextSession]_vars

\* VoiceChatApp is unmounted and mounted again: useRef and useState start
\* afresh, the logger store keeps the log, and requests that are in flight
\* stay in flight.
Remount ==
    /\ mounts < MaxRemounts
    /\ mounts' = mounts + 1
    /\ handledCalls' = {}
    /\ conversation' = <<>>
    /\ origin' = <<>>
    /\ scanned' = 0
    /\ suppressed' = {}
    /\ fresh' = {}
    /\ UNCHANGED <<logs, probe, connected, saved, gate, requests>>

NextRemount ==
    \/ Next
    \/ Remount

\* The component mounted more than once over the same logger store
SpecRemount == Init /\ [][NextRemount]_vars

\* The state of VoiceChatApp, which PasswordGate neither reads nor writes
voiceChat == <<logs, handledCalls, conversation, origin, scanned, suppressed,
               fresh, requests, probe, connected, saved, mounts>>

\* onChange={e => setPassword(e.target.value)}; the form is on screen
TypePassword(p) ==
    /\ ~shown
    /\ password' = p
    /\ UNCHANGED <<voiceChat, authenticated, vcAuth, error, hashing, timers, shown>>

\* handleSubmit up to `await sha256(password)`: the form is submitted with
\* the password of the input field.
Submit ==
    /\ ~shown
    /\ Len(hashing) + timers < MaxPending
    /\ hashing' = Append(hashing, password)
    /\ UNCHANGED <<voiceChat, authenticated, vcAuth, password, error, timers, shown>>

\* Mutant of HashResolves: every submission is let in
HashResolvesAdmitsAll(i) ==
    /\ i \in DOMAIN hashing
    /\ hashing' = Without(hashing, i)
    /\ vcAuth' = Some("true")
    /\ authenticated' = TRUE
    /\ UNCHANGED <<voiceChat, password, error, timers, shown>>

\* handleSubmit after the await, for the i-th pending submission: the hash is
\* compared with PASS_HASH.
HashResolves(i) ==
    /\ i \in DOMAIN hashing
    /\ hashing' = Without(hashing, i)
    /\ IF Sha256(hashing[i]) = PASS_HASH
       THEN /\ vcAuth' = Some("true")
            /\ authenticated' = TRUE
            /\ UNCHANGED <<error, timers>>
       ELSE /\ error' = TRUE
            /\ timers' = timers + 1
            /\ UNCHANGED <<vcAuth, authenticated>>
    /\ UNCHANGED <<voiceChat, password, shown>>

\* crypto.subtle is undefined outside a secure context: sha256 throws and
\* the promise of handleSubmit rejects.
HashFails(i) ==
    /\ i \in DOMAIN hashing
    /\ hashing' = Without(hashing, i)
    /\ UNCHANGED <<voiceChat, authenticated, vcAuth, password, error, timers, shown>>

\* setTimeout(() => setError(false), 2000) fires
TimerFires ==
    /\ timers > 0
    /\ timers' = timers - 1
    /\ error' = FALSE
    /\ UNCHANGED <<voiceChat, authenticated, vcAuth, password, hashing, shown>>

\* React renders PasswordGate again after setAuthenticated:
\* if (authenticated) return <>{children}</>
Render ==
    /\ shown # authenticated
    /\ shown' = authenticated
    /\ UNCHANGED <<voiceChat, authenticated, vcAuth, password, error, hashing, timers>>

\* The page is loaded again in the same tab: sessionStorage is kept, the
\* component state starts afresh and pending work is gone.
Reload ==
    /\ authenticated' = FlagIsTrue(vcAuth)
    /\ shown' = FlagIsTrue(vcAuth)
    /\ password' = ""
    /\ error' = FALSE
    /\ hashing' = <<>>
    /\ timers' = 0
    /\ UNCHANGED <<voiceChat, vcAuth>>

\* PasswordGate mounted in a tab whose sessionStorage holds any of StoredFlags
InitGate ==
    /\ logs = <<>>
    /\ handledCalls = {}
    /\ conversation = <<>>
    /\ origin = <<>>
    /\ scanned = 0
    /\ suppressed = {}
    /\ fresh = {}
    /\ probe = NoProbe
    /\ connected = FALSE
    /\ saved = FALSE
    /\ mounts = 0
    /\ requests = <<>>
    /\ vcAuth \in StoredFlags
    /\ authenticated = FlagIsTrue(vcAuth)
    /\ shown = authenticated
    /\ password = ""
    /\ error = FALSE
    /\ hashing = <<>>
    /\ timers = 0

NextGate ==
    \/ \E p \in Passwords : TypePassword(p)
    \/ Submit
    \/ \E i \in DOMAIN hashing : HashResolves(i)
    \/ \E i \in DOMAIN hashing : HashFails(i)
    \/ TimerFires
    \/ Render
    \/ Reload

SpecGate == InitGate /\ [][NextGate]_vars

\* sendToBridge and the callId computation, each applied on its own to one
\* input
InitPure ==
    /\ logs = <<>>
    /\ handledCalls = {}
    /\ conversation = <<>>
    /\ origin = <<>>
    /\ scanned = 0
    /\ suppressed = {}
    /\ fresh = {}
    /\ requests = <<>>
    /\ connected = FALSE
    /\ saved = FALSE
    /\ mounts = 0
    /\ GateOpen
    /\ probe \in
           { [kind |-> "response", resp |-> r, result |-> None] :
                 r \in ProbeResponses }
           \cup { [kind |-> "calls", a |-> a, b |-> b, keys |-> None] :
                      a \in ProbeCalls, b \in ProbeCalls }

NextPure == CallSendToBridge \/ ComputeCallIds

SpecPure == InitPure /\ [][NextPure]_vars

-----------------------------------------------------------------------------
(* Vocabulary of the properties *)

Range(seq) == {seq[i] : i \in DOMAIN seq}

IsUserTurnEvent(log) == log.message.isObject /\ IsUserTurn(log.message)
IsServerTurnEvent(log) == log.message.isObject /\ HasModelTurnParts(log.message)

\* The parts of a log entry, as the event kind it is
PartsOf(log) ==
    IF IsUserTurnEvent(log) THEN Get(log.message.turns)
    ELSE IF IsServerTurnEvent(log) THEN ModelTurnParts(log.message)
    ELSE <<>>

\* Positions <<ev, pi>> of the parts of the log prefix 1..n
PartPositions(n) ==
    UNION { {<<ev, pi>> : pi \in DOMAIN PartsOf(logs[ev])} : ev \in 1..n }

PartAt(pos) == PartsOf(logs[pos[1]])[pos[2]]

\* Positions of the function-call parts of ServerTurn events in the prefix 1..n
CallPositions(n) ==
    {pos \in PartPositions(n) :
        IsServerTurnEvent(logs[pos[1]]) /\ IsSome(PartAt(pos).functionCall)}

\* The function-call identity at a position: the call and the event timestamp
IdentityAt(pos) == <<Get(PartAt(pos).functionCall), logs[pos[1]].date>>

\* A string has a character that is not whitespace
HasContent(s) == \E k \in 1..Len(s) : CharAt(s, k) \notin Whitespace

\* Positions of the text parts with non-whitespace content in the prefix 1..n
ContentPositions(n) ==
    {pos \in PartPositions(n) :
        IsSome(PartAt(pos).text) /\ HasContent(Get(PartAt(pos).text))}

\* Positions of the text parts that are empty or whitespace only
BlankPositions(n) ==
    {pos \in PartPositions(n) :
        IsSome(PartAt(pos).text) /\ ~HasContent(Get(PartAt(pos).text))}

TextEntries == {i \in DOMAIN conversation : origin[i].kind = "text"}
CallEntries == {i \in DOMAIN conversation : origin[i].kind = "call"}

RequestsFor(reqs, callId) == {i \in DOMAIN reqs : reqs[i].callId = callId}
RequestsOf(identity) ==
    {i \in DOMAIN requests :
        requests[i].fc = identity[1] /\ requests[i].date = identity[2]}

FailedKeys ==
    {requests[i].callId : i \in {j \in DOMAIN requests :
        requests[j].state = "settled" /\ requests[j].failed}}

-----------------------------------------------------------------------------
(* C1 *)

\* C1: the relay is invoked at most once per idempotency key, and exactly one
\* request has been issued for every function-call identity (name, arguments,
\* event timestamp) of the scanned log, however often the identity occurs in
\* the log and however many passes have rescanned it.
C1_AtMostOnceDispatch ==
    /\ \A i, j \in DOMAIN requests :
           requests[i].callId = requests[j].callId => i = j
    /\ \A pos \in CallPositions(scanned) :
           Cardinality(RequestsOf(IdentityAt(pos))) = 1

\* The same identity occurs in two ServerTurn events of the scanned log, and
\* the last pass rescanned an identity that was already dispatched.
C1_Witness ==
    /\ \E p, q \in CallPositions(scanned) :
           p[1] < q[1] /\ IdentityAt(p) = IdentityAt(q)
    /\ suppressed # {}
    /\ requests # <<>>

-----------------------------------------------------------------------------
(* C2 *)

\* C2: running the reduction a second time over an unchanged log publishes the
\* same conversation as the first run.
C2_ReductionIdempotent ==
    [][(scanned = Len(logs) /\ RunEffect) => conversation' = conversation]_vars

-----------------------------------------------------------------------------
(* C3 *)

OriginPos(i) == <<origin[i].ev, origin[i].part>>

\* C3: entries of an earlier event precede the entries of a later event, and
\* every entry, announcements included, carries the timestamp and the content
\* of the part of the scanned log it is attributed to.
C3_EventOrder ==
    /\ Len(origin) = Len(conversation)
    /\ \A a, b \in DOMAIN conversation : origin[a].ev < origin[b].ev => a < b
    /\ \A a \in DOMAIN conversation :
           /\ OriginPos(a) \in PartPositions(scanned)
           /\ conversation[a].time = logs[origin[a].ev].date
           /\ origin[a].kind = "text" =>
                  conversation[a].text = Get(PartAt(OriginPos(a)).text)
           /\ origin[a].kind = "call" =>
                  /\ OriginPos(a) \in CallPositions(scanned)
                  /\ conversation[a].text =
                         AnnouncementText(Get(PartAt(OriginPos(a)).functionCall))

\* An announcement of an earlier event stands before an entry of a later
\* event, after the relay has answered the announced call.
C3_Witness ==
    \E a, b \in DOMAIN conversation :
        /\ origin[a].kind = "call"
        /\ origin[a].ev < origin[b].ev
        /\ \E i \in RequestsOf(IdentityAt(OriginPos(a))) :
               requests[i].state = "settled"

-----------------------------------------------------------------------------
(* C4 *)

EntriesAt(pos) == {i \in TextEntries : OriginPos(i) = pos}

\* C4: no text entry is empty or whitespace only, no blank text part of a
\* UserTurn or ServerTurn has an entry, and there are as many text entries as
\* text parts with non-whitespace content.
C4_BlankTextSuppressed ==
    /\ \A i \in TextEntries : HasContent(conversation[i].text)
    /\ \A pos \in BlankPositions(scanned) : EntriesAt(pos) = {}
    /\ Cardinality(TextEntries) = Cardinality(ContentPositions(scanned))

\* A pass has scanned blank text parts in a UserTurn and in a ServerTurn and
\* published text entries.
C4_Witness ==
    /\ \E p, q \in BlankPositions(scanned) :
           IsUserTurnEvent(logs[p[1]]) /\ IsServerTurnEvent(logs[q[1]])
    /\ TextEntries # {}

-----------------------------------------------------------------------------
(* C5 *)

\* The role of the entries of a log entry: user for a UserTurn, the assistant
\* (which the code spells "model") for a ServerTurn
RoleOf(log) == IF IsUserTurnEvent(log) THEN "user" ELSE "model"

\* C5: every text part with non-whitespace content has exactly one entry, with
\* the part's text unchanged, the event's timestamp and the role of the event's
\* kind; entries come from UserTurn and ServerTurn events only.
C5_TextEntries ==
    /\ \A pos \in ContentPositions(scanned) : Cardinality(EntriesAt(pos)) = 1
    /\ \A i \in TextEntries :
           /\ OriginPos(i) \in ContentPositions(scanned)
           /\ conversation[i] =
                  [role |-> RoleOf(logs[origin[i].ev]),
                   text |-> Get(PartAt(OriginPos(i)).text),
                   time |-> logs[origin[i].ev].date]
    /\ \A i \in DOMAIN conversation :
           \/ IsUserTurnEvent(logs[origin[i].ev])
           \/ IsServerTurnEvent(logs[origin[i].ev])
    /\ Len(conversation) = Cardinality(TextEntries) + Cardinality(CallEntries)

\* The conversation holds a user entry whose text has surrounding whitespace
\* and an assistant entry.
C5_Witness ==
    \E i, j \in TextEntries :
        /\ conversation[i].role = "user"
        /\ Trim(conversation[i].text) # conversation[i].text
        /\ conversation[j].role = "model"

-----------------------------------------------------------------------------
(* C6 *)

CommandUrl == VOICE_BRIDGE_URL \o "/command"
ActionUrl == VOICE_BRIDGE_URL \o "/action"

\* C6: a request goes to /command, carrying args.message as the command, iff
\* the call's name is send_message; every other request goes to /action with
\* the name as the action; no call has requests to both endpoints.
C6_Routing ==
    /\ \A i \in DOMAIN requests :
           LET r == requests[i]
           IN  /\ r.url \in {CommandUrl, ActionUrl}
               /\ r.url = CommandUrl <=> r.fc.name = "send_message"
               /\ r.url = CommandUrl =>
                      r.body = [secret |-> VOICE_BRIDGE_SECRET,
                                command |-> Lookup(Params(r.fc), "message")]
               /\ r.url = ActionUrl => r.body.action = r.fc.name
    /\ \A i, j \in DOMAIN requests :
           (requests[i].fc = requests[j].fc /\ requests[i].date = requests[j].date)
               => requests[i].url = requests[j].url

\* A send_message call and another call have both been dispatched.
C6_Witness ==
    /\ \E i \in DOMAIN requests :
           requests[i].url = CommandUrl /\ requests[i].body.command = Some("status please")
    /\ \E i \in DOMAIN requests : requests[i].url = ActionUrl

-----------------------------------------------------------------------------
(* C7 *)

\* C7: once the relay call for a key has failed, no step removes the key from
\* the handled set and no step issues another request for it.
C7_FailedNeverRetried ==
    [][\A k \in FailedKeys :
           /\ k \in handledCalls'
           /\ RequestsFor(requests', k) = RequestsFor(requests, k)]_vars

\* A pass has met a call again after the relay call for it had failed, and
\* there is still one request for it.
C7_Witness ==
    \E s \in suppressed :
        /\ s.afterFailure
        /\ s.callId \in FailedKeys
        /\ Cardinality(RequestsFor(requests, s.callId)) = 1

-----------------------------------------------------------------------------
(* C8 *)

Settled == {i \in DOMAIN requests : requests[i].state = "settled"}

\* C8: every relay operation that met a transport error, a malformed answer or
\* a non-success status completed with a result whose success is false.
C8_RelayFailsClosed ==
    \A i \in Settled :
        requests[i].failed =>
            /\ IsSome(requests[i].result)
            /\ Get(requests[i].result).success = FALSE

-----------------------------------------------------------------------------
(* C9 *)

\* C9: when the relay call for a key has failed, the dispatch record of the key
\* has outcome failed.
C9_FailedOutcomeRecorded ==
    \A i \in Settled :
        requests[i].failed => DispatchOutcome(requests[i].callId) = "failed"

-----------------------------------------------------------------------------
(* C10 *)

\* C10: an announcement entry that is in the conversation is still in the
\* conversation published by a later pass.  The log is append-only, so it
\* still holds the announced event; the passes taken are those that follow a
\* log update (scanned grows), which React always runs.
C10_AnnouncementPersists ==
    [][scanned' > scanned =>
           \A i \in CallEntries : conversation[i] \in Range(conversation')]_vars

-----------------------------------------------------------------------------
(* C11 *)

KeyAt(pos) == CallId(IdentityAt(pos)[1], IdentityAt(pos)[2])

\* C11: when the relay call of a function call in event i has failed, every
\* later event of the scanned log still has its text entries in the published
\* conversation and its function calls dispatched, in the pass that issued
\* the call and in every later pass.
C11_FailureDoesNotInterrupt ==
    \A p \in CallPositions(scanned) :
        KeyAt(p) \in FailedKeys =>
            /\ \A q \in ContentPositions(scanned) :
                   q[1] > p[1] => EntriesAt(q) # {}
            /\ \A q \in CallPositions(scanned) :
                   q[1] > p[1] => RequestsOf(IdentityAt(q)) # {}

\* The relay call of event 1 has failed, a pass has run since and seen the
\* failed call again, and a later event has its text entry.
C11_Witness ==
    /\ \E rec \in suppressed : rec.afterFailure
    /\ \E p \in CallPositions(scanned) : \E q \in ContentPositions(scanned) :
           /\ KeyAt(p) \in FailedKeys
           /\ q[1] > p[1]
           /\ EntriesAt(q) # {}

-----------------------------------------------------------------------------
(* C12 *)

\* C12: a pass publishes its conversation while the requests it issued are
\* still in flight, and the completion of a relay call, in whatever order and
\* with whatever answer, changes neither the conversation nor the handled
\* keys nor the log.
C12_FireAndForget ==
    [][/\ Len(requests') > Len(requests) =>
              /\ scanned' = Len(logs)
              /\ \A i \in (Len(requests) + 1)..Len(requests') :
                     requests'[i].state = "inflight"
       /\ (\E i \in DOMAIN requests :
              requests[i].state = "inflight" /\ requests'[i].state = "settled") =>
              /\ conversation' = conversation
              /\ handledCalls' = handledCalls
              /\ logs' = logs]_vars

\* A later call has been answered while an earlier one is still in flight,
\* and the conversation holds an announcement.
C12_Witness ==
    /\ \E i, j \in DOMAIN requests :
           /\ i < j
           /\ requests[i].state = "inflight"
           /\ requests[j].state = "settled"
    /\ CallEntries # {}

-----------------------------------------------------------------------------
(* C13 *)

\* C13: the step in which connected turns false changes neither the log nor
\* the conversation nor the handled keys nor any request, and while the
\* session is closed every request in flight can still be answered, with any
\* answer.
C13_DisconnectPreserves ==
    /\ [][(connected /\ ~connected') =>
              /\ logs' = logs
              /\ conversation' = conversation
              /\ handledCalls' = handledCalls
              /\ requests' = requests]_vars
    /\ [](~connected =>
              \A i \in DOMAIN requests :
                  requests[i].state = "inflight" =>
                      \A resp \in Responses : ENABLED RelaySettles(i, resp))

\* The session has been closed after it delivered function calls: one call is
\* still in flight, another has been answered, and the conversation stands.
C13_Witness ==
    /\ ~connected
    /\ \E i \in DOMAIN requests : requests[i].state = "inflight"
    /\ \E i \in DOMAIN requests : requests[i].state = "settled"
    /\ conversation # <<>>
    /\ handledCalls # {}

-----------------------------------------------------------------------------
(* C14 *)

\* The announcement entries of the conversation for the callId k
AnnouncementsOf(k) == {i \in CallEntries : KeyAt(OriginPos(i)) = k}

\* C14: after a pass every callId of a function-call part of the scanned log
\* is in handledCalls and has exactly one request, and the conversation of the
\* pass holds exactly one announcement for every callId the pass saw first,
\* with the role of the assistant, the timestamp of the event and the text
\* that names the function and its arguments.
C14_DispatchedWhenFirstSeen ==
    /\ \A pos \in CallPositions(scanned) :
           /\ KeyAt(pos) \in handledCalls
           /\ Cardinality(RequestsFor(requests, KeyAt(pos))) = 1
    /\ \A k \in fresh :
           /\ Cardinality(AnnouncementsOf(k)) = 1
           /\ \A i \in AnnouncementsOf(k) :
                  conversation[i] =
                      [role |-> "model",
                       text |-> AnnouncementText(IdentityAt(OriginPos(i))[1]),
                       time |-> logs[origin[i].ev].date]

\* The last pass saw one call first and another call again.
C14_Witness ==
    /\ fresh # {}
    /\ \E pos \in CallPositions(scanned) : KeyAt(pos) \notin fresh
    /\ \E pos \in CallPositions(scanned) : KeyAt(pos) \in fresh

-----------------------------------------------------------------------------
(* C15 *)

\* The relay's answer has a parsed body whose status field is "sent"
StatusIsSent(resp) ==
    /\ ~resp.rejects
    /\ IsSome(resp.data)
    /\ ~Get(resp.data).isNull
    /\ Get(resp.data).status = Some("sent")

\* C15: sendToBridge resolves to success true exactly when the answer's
\* status field is "sent"; another status, no status and an answer without a
\* parseable body give success false, whatever the message field holds.
C15_SuccessIffStatusSent ==
    (probe.kind = "response" /\ IsSome(probe.result)) =>
        (Get(probe.result).success <=> StatusIsSent(probe.resp))

\* sendToBridge has resolved to success false for an answer whose message is
\* "sent" and whose status is missing.
C15_Witness ==
    /\ probe.kind = "response"
    /\ IsSome(probe.result)
    /\ probe.resp = Response(FALSE, Some(JsonObj(None, Some("sent"))))
    /\ ~Get(probe.result).success

-----------------------------------------------------------------------------
(* C16 *)

\* C16: for every function call of the scanned log whose name is not
\* send_message there is one request; it goes to /action and its body is the
\* shared secret, the name as the action and the arguments as params, key by
\* key and value by value as the call lists them, the empty mapping when the
\* call has no arguments.
C16_ActionRequestVerbatim ==
    \A pos \in CallPositions(scanned) :
        LET fc == Get(PartAt(pos).functionCall)
        IN  fc.name # "send_message" =>
                /\ Cardinality(RequestsOf(IdentityAt(pos))) = 1
                /\ \A i \in RequestsOf(IdentityAt(pos)) :
                       /\ requests[i].url = ActionUrl
                       /\ requests[i].body =
                              [secret |-> VOICE_BRIDGE_SECRET,
                               action |-> fc.name,
                               params |-> IF IsSome(fc.args)
                                          THEN Get(fc.args) ELSE <<>>]

\* A call with two arguments and a call without arguments have both been
\* dispatched to /action.
C16_Witness ==
    /\ \E i \in DOMAIN requests :
           /\ requests[i].url = ActionUrl
           /\ Len(requests[i].body.params) = 2
           /\ requests[i].fc.args = Some(requests[i].body.params)
    /\ \E i \in DOMAIN requests :
           /\ requests[i].url = ActionUrl
           /\ requests[i].fc.args = None
           /\ requests[i].body.params = <<>>

-----------------------------------------------------------------------------
(* C17 *)

\* Two argument mappings have the same keys with the same values, in whatever
\* order they are listed; both absent counts as the same
SameMapping(x, y) ==
    /\ IsSome(x) <=> IsSome(y)
    /\ IsSome(x) =>
           /\ Len(Get(x)) = Len(Get(y))
           /\ Range(Get(x)) = Range(Get(y))

\* C17: two function calls get the same callId exactly when they have the
\* same name, the same argument mapping in whatever key order, and the same
\* event timestamp.
C17_KeyIdentifiesCall ==
    (probe.kind = "calls" /\ IsSome(probe.keys)) =>
        (Get(probe.keys)[1] = Get(probe.keys)[2] <=>
            /\ probe.a.fc.name = probe.b.fc.name
            /\ SameMapping(probe.a.fc.args, probe.b.fc.args)
            /\ probe.a.date = probe.b.date)

-----------------------------------------------------------------------------
(* C18 *)

\* C18: after VoiceChatApp is mounted again over the same log, no function
\* call that was dispatched before is dispatched again: every function call
\* of the log has at most one request.
C18_NoRedispatchAfterRemount ==
    \A pos \in CallPositions(Len(logs)) :
        Cardinality(RequestsOf(IdentityAt(pos))) <= 1

-----------------------------------------------------------------------------
(* C19 *)

\* C19: no step removes a callId from handledCalls, be it a pass, an answer
\* of the relay, a failure, the opening or closing of the session or a
\* transcript save, and every callId in the set is that of a function-call
\* part of the scanned log.
C19_HandledOnlyGrows ==
    /\ [][handledCalls \subseteq handledCalls']_vars
    /\ [](handledCalls \subseteq {KeyAt(pos) : pos \in CallPositions(scanned)})

\* Two calls have been dispatched, one has failed and one has succeeded, the
\* transcript has been saved and the session closed; both keys are handled.
C19_Witness ==
    /\ Cardinality(handledCalls) = 2
    /\ \E i \in DOMAIN requests : requests[i].state = "settled" /\ requests[i].failed
    /\ \E i \in DOMAIN requests : requests[i].state = "settled" /\ ~requests[i].failed
    /\ saved
    /\ ~connected
    /\ logs # <<>>

-----------------------------------------------------------------------------
(* C20 *)

\* C20: the conversation a pass publishes has an announcement for a function
\* call exactly when that pass issued the request for the call's callId, one
\* announcement per request; a pass that issues no request publishes no
\* announcement.
C20_AnnouncementPerRequest ==
    /\ {KeyAt(OriginPos(i)) : i \in CallEntries} = fresh
    /\ Cardinality(CallEntries) = Cardinality(fresh)
    /\ fresh = {} => CallEntries = {}
    /\ \A k \in fresh : Cardinality(RequestsFor(requests, k)) = 1

\* A pass over a log with function calls has issued no request and published
\* text entries only.
C20_Witness ==
    /\ CallPositions(scanned) # {}
    /\ fresh = {}
    /\ requests # <<>>
    /\ TextEntries # {}

-----------------------------------------------------------------------------
(* C21 *)

\* C21: the children are rendered only while authenticated is true;
\* authenticated is true at mount only if 'vc-auth' is 'true', and turns true
\* later only in the step that finishes a submission whose password hashes
\* to PASS_HASH; the step that finishes a submission with another hash
\* changes neither authenticated nor 'vc-auth'; and no step turns
\* authenticated from true to false.
C21_GateAdmitsOnHashOrFlag ==
    /\ [](shown => authenticated)
    /\ (authenticated => FlagIsTrue(vcAuth))
    /\ [][(~authenticated /\ authenticated') =>
              \/ FlagIsTrue(vcAuth)
              \/ \E i \in DOMAIN hashing :
                     /\ Sha256(hashing[i]) = PASS_HASH
                     /\ hashing' = Without(hashing, i)]_vars
    /\ [][\A i \in DOMAIN hashing :
              (Sha256(hashing[i]) # PASS_HASH /\ hashing' = Without(hashing, i)) =>
                  /\ authenticated' = authenticated
                  /\ vcAuth' = vcAuth]_vars
    /\ [][authenticated => authenticated']_vars

\* In a tab without the flag a wrong password was submitted and refused, then
\* the right one was submitted, and the children are rendered.
C21_Witness ==
    /\ error
    /\ timers > 0
    /\ authenticated
    /\ shown
    /\ vcAuth = Some("true")
    /\ password = ThePassword

=============================================================================
